---------------------------- MODULE Spec2Model ----------------------------
(***************************************************************************)
(* A model of the shopping assistant: the tool functions of tools.py, the  *)
(* query parser and orchestrator of agent.py (ShoppingAgent, main), and    *)
(* the tools, parser, planner and renderer of main.py (ShoppingAssistant). *)
(*                                                                         *)
(* Strings are sequences of character codes (ASCII), so that lower(),      *)
(* substring tests, split() and the regular expressions are computed       *)
(* character by character as Python computes them.  Money is counted in    *)
(* cents (prices) or in 1/10000 of a dollar (a discounted price); a price  *)
(* formatted with :.2f or str() is rendered back to characters.            *)
(***************************************************************************)
EXTENDS Integers, Sequences, FiniteSets

VARIABLES
    pc,        \* agent.main: "ask", "input", "dispatch", "print", "done", "crashed"
    nRead,     \* agent.main: lines read from standard input so far
    query,     \* agent.main: the local variable query (the line just read)
    parsed,    \* process_query: the local variable parsed_query of the last call
    matched,   \* process_query: ids of the products the search returned, in order
    response,  \* agent.main: the local variable response
    lastOut,   \* agent.main: the last text printed to standard output
    nProc,     \* agent.main: calls of agent.process_query so far
    nPrinted,  \* agent.main: responses printed so far
    raised,    \* agent.main: the exception that ended the loop ("none" if none)
    now,       \* the date datetime.now() gives
    ticks,     \* midnights passed since the start of the run
    seed,      \* the key of this run's string hash (PYTHONHASHSEED)
    call       \* the last function called directly, with arguments and result

vars == <<pc, nRead, query, parsed, matched, response, lastOut, nProc,
          nPrinted, raised, now, ticks, seed, call>>

----------------------------------------------------------------------------
(* Python str operations on sequences of character codes.                  *)

IsUpper(c) == c >= 65 /\ c <= 90
\* \d of the re module, on ASCII text
DigitChars == 48..57
\* \w of the re module, on ASCII text: letters, digits and the underscore
WordChars == (65..90) \cup (97..122) \cup DigitChars \cup {95}
\* the characters str.split() with no argument splits on
SpaceChars == {32, 9, 10, 11, 12, 13}
NonSpaceChars == (0..127) \ SpaceChars

\* str.lower()
Lower(s) == [i \in 1..Len(s) |-> IF IsUpper(s[i]) THEN s[i] + 32 ELSE s[i]]

\* does sub occur in s at position i
MatchAt(s, i, sub) ==
    /\ i >= 1
    /\ i + Len(sub) - 1 <= Len(s)
    /\ \A k \in 1..Len(sub) : s[i + k - 1] = sub[k]

\* the positions at which sub occurs in s
Occurrences(s, sub) == {i \in 1..(Len(s) - Len(sub) + 1) : MatchAt(s, i, sub)}

\* sub in s
Contains(s, sub) == \E i \in 1..(Len(s) - Len(sub) + 1) : MatchAt(s, i, sub)

SetMin(S) == CHOOSE x \in S : \A y \in S : x <= y

\* s.find(sub) + 1: the first position of sub in s, 0 when there is none
Find(s, sub) == IF Occurrences(s, sub) = {} THEN 0 ELSE SetMin(Occurrences(s, sub))

\* s[i:], with i counted from 1
From(s, i) == SubSeq(s, i, Len(s))

\* s.split(sep)[1]: the text between the first and the second occurrence of
\* sep (non-overlapping, left to right); only called when sep is in s
SplitSecond(s, sep) ==
    LET rest == From(s, Find(s, sep) + Len(sep))
        nxt == Find(rest, sep)
    IN  IF nxt = 0 THEN rest ELSE SubSeq(rest, 1, nxt - 1)

\* the length of the longest run of characters of class P starting at s[i]
RECURSIVE RunLen(_, _, _)
RunLen(s, i, P) ==
    IF i > Len(s) \/ s[i] \notin P THEN 0 ELSE 1 + RunLen(s, i + 1, P)

\* s.split(): the whitespace-separated tokens of s; only the first is used.
\* FirstToken is <<>> exactly when split() gives the empty list
FirstToken(s) ==
    LET lead == RunLen(s, 1, SpaceChars)
    IN  SubSeq(s, lead + 1, lead + RunLen(s, lead + 1, NonSpaceChars))

\* s.replace(a, b) for single characters
ReplaceCh(s, a, b) == [i \in 1..Len(s) |-> IF s[i] = a THEN b ELSE s[i]]

\* re.search(lit + r'(\w+)' + close, s).group(1), or <<>> when there is no
\* match: the leftmost position where lit occurs followed by one or more
\* characters of the class and then by close.  The class is matched
\* greedily; no character of close is in the class, so giving characters
\* back never makes close match
SearchGroup(s, lit, P, close) ==
    LET hits == {i \in Occurrences(s, lit) :
                    LET n == RunLen(s, i + Len(lit), P)
                    IN  n > 0 /\ MatchAt(s, i + Len(lit) + n, close)}
    IN  IF hits = {} THEN <<>>
        ELSE LET i == SetMin(hits)
             IN  SubSeq(s, i + Len(lit), i + Len(lit) + RunLen(s, i + Len(lit), P) - 1)

\* int(s) for a string of decimal digits
RECURSIVE DigitsValue(_)
DigitsValue(s) ==
    IF Len(s) = 0 THEN 0
    ELSE 10 * DigitsValue(SubSeq(s, 1, Len(s) - 1)) + (s[Len(s)] - 48)

\* str(n) for a natural number
RECURSIVE NatStr(_)
NatStr(n) == IF n < 10 THEN <<48 + n>> ELSE NatStr(n \div 10) \o <<48 + (n % 10)>>

\* n written with two digits (%02d)
Two(n) == <<48 + ((n \div 10) % 10), 48 + (n % 10)>>

Abs(n) == IF n < 0 THEN -n ELSE n

\* format(x, ".2f") of an amount of c cents
Fmt2(c) ==
    (IF c < 0 THEN <<45>> ELSE <<>>) \o NatStr(Abs(c) \div 100) \o <<46>> \o Two(Abs(c) % 100)

\* an amount of t ten-thousandths rounded to cents, as format(x, ".2f") and
\* round(x, 2) round it: to the nearest cent.  A tie (...50) goes to the even
\* cent here; Python decides it by the binary value of the float
RoundCents(t) ==
    LET q == t \div 100
        r == t % 100
    IN  IF r < 50 THEN q
        ELSE IF r > 50 THEN q + 1
        ELSE IF q % 2 = 0 THEN q ELSE q + 1

\* str(x) of a float of c cents (c >= 0): the shortest decimal, with at
\* least one digit after the point (42.5, 5.0, 36.79)
FloatStr(c) ==
    NatStr(c \div 100) \o <<46>> \o
    (IF c % 10 = 0 THEN <<48 + ((c \div 10) % 10)>> ELSE Two(c % 100))

\* sep.join(parts)
RECURSIVE Join(_, _)
Join(sep, parts) ==
    IF Len(parts) = 0 THEN <<>>
    ELSE IF Len(parts) = 1 THEN parts[1]
    ELSE parts[1] \o sep \o Join(sep, Tail(parts))

\* the concatenation of a sequence of strings
Concat(parts) == Join(<<>>, parts)

\* a Python dict: a function on the keys present
EmptyDict == [k \in {} |-> 0]
Put(d, k, v) == [x \in (DOMAIN d) \cup {k} |-> IF x = k THEN v ELSE d[x]]
Has(d, k) == k \in DOMAIN d

\* an optional value: None, or a string
None == [some |-> FALSE, val |-> <<>>]
Some(s) == [some |-> TRUE, val |-> s]

----------------------------------------------------------------------------
----------------------------------------------------------------------------
(* Strings, as sequences of character codes; each is shown above its codes. *)

\* the string literals of tools.py
TL == [
    \* "Floral Summer Skirt"
    FloralSummerSkirt |-> <<70, 108, 111, 114, 97, 108, 32, 83, 117, 109,
        109, 101, 114, 32, 83, 107, 105, 114, 116>>,
    \* "White Sneakers"
    WhiteSneakers |-> <<87, 104, 105, 116, 101, 32, 83, 110, 101, 97, 107,
        101, 114, 115>>,
    \* "Casual Denim Jacket"
    CasualDenimJacket |-> <<67, 97, 115, 117, 97, 108, 32, 68, 101, 110,
        105, 109, 32, 74, 97, 99, 107, 101, 116>>,
    \* "Cocktail Dress"
    CocktailDress |-> <<67, 111, 99, 107, 116, 97, 105, 108, 32, 68, 114,
        101, 115, 115>>,
    \* "Blue"
    Blue |-> <<66, 108, 117, 101>>,
    \* "White"
    White |-> <<87, 104, 105, 116, 101>>,
    \* "Black"
    Black |-> <<66, 108, 97, 99, 107>>,
    \* "S"
    S |-> <<83>>,
    \* "8"
    n8 |-> <<56>>,
    \* "M"
    M |-> <<77>>,
    \* "L"
    L |-> <<76>>,
    \* "10"
    n10 |-> <<49, 48>>,
    \* "FashionHub"
    FashionHub |-> <<70, 97, 115, 104, 105, 111, 110, 72, 117, 98>>,
    \* "SneakerWorld"
    SneakerWorld |-> <<83, 110, 101, 97, 107, 101, 114, 87, 111, 114, 108,
        100>>,
    \* "SiteA"
    SiteA |-> <<83, 105, 116, 101, 65>>,
    \* "SiteB"
    SiteB |-> <<83, 105, 116, 101, 66>>,
    \* "Items must be unworn"
    ItemsMustBeUnworn |-> <<73, 116, 101, 109, 115, 32, 109, 117, 115,
        116, 32, 98, 101, 32, 117, 110, 119, 111, 114, 110>>,
    \* "Original tags attached"
    OriginalTagsAttached |-> <<79, 114, 105, 103, 105, 110, 97, 108, 32,
        116, 97, 103, 115, 32, 97, 116, 116, 97, 99, 104, 101, 100>>,
    \* "Unworn condition"
    UnwornCondition |-> <<85, 110, 119, 111, 114, 110, 32, 99, 111, 110,
        100, 105, 116, 105, 111, 110>>,
    \* "Original box required"
    OriginalBoxRequired |-> <<79, 114, 105, 103, 105, 110, 97, 108, 32,
        98, 111, 120, 32, 114, 101, 113, 117, 105, 114, 101, 100>>,
    \* "Store credit only"
    StoreCreditOnly |-> <<83, 116, 111, 114, 101, 32, 99, 114, 101, 100,
        105, 116, 32, 111, 110, 108, 121>>,
    \* "Within 14 days"
    Within14Days |-> <<87, 105, 116, 104, 105, 110, 32, 49, 52, 32, 100,
        97, 121, 115>>,
    \* "Free returns within 30 days"
    FreeReturnsWithin30Days |-> <<70, 114, 101, 101, 32, 114, 101, 116,
        117, 114, 110, 115, 32, 119, 105, 116, 104, 105, 110, 32, 51, 48,
        32, 100, 97, 121, 115>>,
    \* "Original condition"
    OriginalCondition |-> <<79, 114, 105, 103, 105, 110, 97, 108, 32, 99,
        111, 110, 100, 105, 116, 105, 111, 110>>,
    \* "SAVE10"
    SAVE10 |-> <<83, 65, 86, 69, 49, 48>>,
    \* "SUMMER20"
    SUMMER20 |-> <<83, 85, 77, 77, 69, 82, 50, 48>>,
    \* "WELCOME15"
    WELCOME15 |-> <<87, 69, 76, 67, 79, 77, 69, 49, 53>>,
    \* "https://"
    https |-> <<104, 116, 116, 112, 115, 58, 47, 47>>,
    \* ".com/products/"
    comProducts |-> <<46, 99, 111, 109, 47, 112, 114, 111, 100, 117, 99,
        116, 115, 47>> ]

\* the string literals of agent.py
AL == [
    \* "under $"
    underDollar |-> <<117, 110, 100, 101, 114, 32, 36>>,
    \* "size"
    size |-> <<115, 105, 122, 101>>,
    \* "size "
    sizeSp |-> <<115, 105, 122, 101, 32>>,
    \* "white"
    white |-> <<119, 104, 105, 116, 101>>,
    \* "black"
    black |-> <<98, 108, 97, 99, 107>>,
    \* "blue"
    blue |-> <<98, 108, 117, 101>>,
    \* "red"
    red |-> <<114, 101, 100>>,
    \* "green"
    green |-> <<103, 114, 101, 101, 110>>,
    \* "yellow"
    yellow |-> <<121, 101, 108, 108, 111, 119>>,
    \* "purple"
    purple |-> <<112, 117, 114, 112, 108, 101>>,
    \* "pink"
    pink |-> <<112, 105, 110, 107>>,
    \* "skirt"
    skirt |-> <<115, 107, 105, 114, 116>>,
    \* "sneakers"
    sneakers |-> <<115, 110, 101, 97, 107, 101, 114, 115>>,
    \* "jacket"
    jacket |-> <<106, 97, 99, 107, 101, 116>>,
    \* "dress"
    dress |-> <<100, 114, 101, 115, 115>>,
    \* "code"
    code |-> <<99, 111, 100, 101>>,
    \* "code '"
    codeQuote |-> <<99, 111, 100, 101, 32, 39>>,
    \* "'"
    quote |-> <<39>>,
    \* "Found "
    Found |-> <<70, 111, 117, 110, 100, 32>>,
    \* " matching products:"
    matchingProducts |-> <<32, 109, 97, 116, 99, 104, 105, 110, 103, 32,
        112, 114, 111, 100, 117, 99, 116, 115, 58>>,
    \* "- "
    dash |-> <<45, 32>>,
    \* " ("
    openParen |-> <<32, 40>>,
    \* ", size "
    commaSize |-> <<44, 32, 115, 105, 122, 101, 32>>,
    \* ") at $"
    atDollar |-> <<41, 32, 97, 116, 32, 36>>,
    \* " from "
    from |-> <<32, 102, 114, 111, 109, 32>>,
    \* "  Applied code '"
    AppliedCode |-> <<32, 32, 65, 112, 112, 108, 105, 101, 100, 32, 99,
        111, 100, 101, 32, 39>>,
    \* "' for "
    quoteFor |-> <<39, 32, 102, 111, 114, 32>>,
    \* "% off. Final price: $"
    pctOff |-> <<37, 32, 111, 102, 102, 46, 32, 70, 105, 110, 97, 108, 32,
        112, 114, 105, 99, 101, 58, 32, 36>>,
    \* "  Discount code '"
    DiscountCode |-> <<32, 32, 68, 105, 115, 99, 111, 117, 110, 116, 32,
        99, 111, 100, 101, 32, 39>>,
    \* "' is invalid."
    isInvalid |-> <<39, 32, 105, 115, 32, 105, 110, 118, 97, 108, 105,
        100, 46>>,
    \* "  Shipping: $"
    Shipping |-> <<32, 32, 83, 104, 105, 112, 112, 105, 110, 103, 58, 32,
        36>>,
    \* ", Estimated delivery: "
    EstimatedDelivery |-> <<44, 32, 69, 115, 116, 105, 109, 97, 116, 101,
        100, 32, 100, 101, 108, 105, 118, 101, 114, 121, 58, 32>>,
    \* "better deals"
    betterDeals |-> <<98, 101, 116, 116, 101, 114, 32, 100, 101, 97, 108,
        115>>,
    \* "price comparison"
    priceComparison |-> <<112, 114, 105, 99, 101, 32, 99, 111, 109, 112,
        97, 114, 105, 115, 111, 110>>,
    \* "  Price comparisons:"
    PriceComparisons |-> <<32, 32, 80, 114, 105, 99, 101, 32, 99, 111,
        109, 112, 97, 114, 105, 115, 111, 110, 115, 58>>,
    \* "    "
    n4sp |-> <<32, 32, 32, 32>>,
    \* ": $"
    colonDollar |-> <<58, 32, 36>>,
    \* "In stock"
    InStock |-> <<73, 110, 32, 115, 116, 111, 99, 107>>,
    \* "Out of stock"
    OutOfStock |-> <<79, 117, 116, 32, 111, 102, 32, 115, 116, 111, 99,
        107>>,
    \* ")"
    closeParen |-> <<41>>,
    \* "Sorry, no products found matching your criteria."
    Sorry |-> <<83, 111, 114, 114, 121, 44, 32, 110, 111, 32, 112, 114,
        111, 100, 117, 99, 116, 115, 32, 102, 111, 117, 110, 100, 32, 109,
        97, 116, 99, 104, 105, 110, 103, 32, 121, 111, 117, 114, 32, 99,
        114, 105, 116, 101, 114, 105, 97, 46>>,
    \* "return"
    return |-> <<114, 101, 116, 117, 114, 110>>,
    \* "\nReturn Policy for "
    nlReturnPolicyFor |-> <<10, 82, 101, 116, 117, 114, 110, 32, 80, 111,
        108, 105, 99, 121, 32, 102, 111, 114, 32>>,
    \* ":"
    colon |-> <<58>>,
    \* " days to return"
    daysToReturn |-> <<32, 100, 97, 121, 115, 32, 116, 111, 32, 114, 101,
        116, 117, 114, 110>>,
    \* "Free returns"
    FreeReturns |-> <<70, 114, 101, 101, 32, 114, 101, 116, 117, 114, 110,
        115>>,
    \* "Paid returns"
    PaidReturns |-> <<80, 97, 105, 100, 32, 114, 101, 116, 117, 114, 110,
        115>>,
    \* "- Conditions:"
    Conditions |-> <<45, 32, 67, 111, 110, 100, 105, 116, 105, 111, 110,
        115, 58>>,
    \* "  * "
    star |-> <<32, 32, 42, 32>>,
    \* "4. I want to buy a cocktail dress from SiteB, but only if returns are hassle-free. Do they accept returns?"
    Banner |-> <<52, 46, 32, 73, 32, 119, 97, 110, 116, 32, 116, 111, 32,
        98, 117, 121, 32, 97, 32, 99, 111, 99, 107, 116, 97, 105, 108, 32,
        100, 114, 101, 115, 115, 32, 102, 114, 111, 109, 32, 83, 105, 116,
        101, 66, 44, 32, 98, 117, 116, 32, 111, 110, 108, 121, 32, 105,
        102, 32, 114, 101, 116, 117, 114, 110, 115, 32, 97, 114, 101, 32,
        104, 97, 115, 115, 108, 101, 45, 102, 114, 101, 101, 46, 32, 68,
        111, 32, 116, 104, 101, 121, 32, 97, 99, 99, 101, 112, 116, 32,
        114, 101, 116, 117, 114, 110, 115, 63>>,
    \* "> "
    prompt |-> <<62, 32>>,
    \* "\nWhat would you like to know? "
    Ask |-> <<10, 87, 104, 97, 116, 32, 119, 111, 117, 108, 100, 32, 121,
        111, 117, 32, 108, 105, 107, 101, 32, 116, 111, 32, 107, 110, 111,
        119, 63, 32>>,
    \* "exit"
    exit |-> <<101, 120, 105, 116>>,
    \* "Thank you for shopping with us!"
    Farewell |-> <<84, 104, 97, 110, 107, 32, 121, 111, 117, 32, 102, 111,
        114, 32, 115, 104, 111, 112, 112, 105, 110, 103, 32, 119, 105,
        116, 104, 32, 117, 115, 33>> ]

\* the string literals of main.py
ML == [
    \* "Red Summer Dress"
    RedSummerDress |-> <<82, 101, 100, 32, 83, 117, 109, 109, 101, 114,
        32, 68, 114, 101, 115, 115>>,
    \* "Blue Jeans"
    BlueJeans |-> <<66, 108, 117, 101, 32, 74, 101, 97, 110, 115>>,
    \* "Black Sneakers"
    BlackSneakers |-> <<66, 108, 97, 99, 107, 32, 83, 110, 101, 97, 107,
        101, 114, 115>>,
    \* "ShopStyle"
    ShopStyle |-> <<83, 104, 111, 112, 83, 116, 121, 108, 101>>,
    \* "ShoePalace"
    ShoePalace |-> <<83, 104, 111, 101, 80, 97, 108, 97, 99, 101>>,
    \* "StyleMart"
    StyleMart |-> <<83, 116, 121, 108, 101, 77, 97, 114, 116>>,
    \* "TrendyStore"
    TrendyStore |-> <<84, 114, 101, 110, 100, 121, 83, 116, 111, 114,
        101>>,
    \* "DenimWorld"
    DenimWorld |-> <<68, 101, 110, 105, 109, 87, 111, 114, 108, 100>>,
    \* "New York"
    NewYork |-> <<78, 101, 119, 32, 89, 111, 114, 107>>,
    \* " business days after order"
    businessDays |-> <<32, 98, 117, 115, 105, 110, 101, 115, 115, 32, 100,
        97, 121, 115, 32, 97, 102, 116, 101, 114, 32, 111, 114, 100, 101,
        114>>,
    \* "30-day returns"
    n30dayReturns |-> <<51, 48, 45, 100, 97, 121, 32, 114, 101, 116, 117,
        114, 110, 115>>,
    \* "14-day returns"
    n14dayReturns |-> <<49, 52, 45, 100, 97, 121, 32, 114, 101, 116, 117,
        114, 110, 115>>,
    \* "7-day returns"
    n7dayReturns |-> <<55, 45, 100, 97, 121, 32, 114, 101, 116, 117, 114,
        110, 115>>,
    \* "Exchange only"
    ExchangeOnly |-> <<69, 120, 99, 104, 97, 110, 103, 101, 32, 111, 110,
        108, 121>>,
    \* "No policy found"
    NoPolicyFound |-> <<78, 111, 32, 112, 111, 108, 105, 99, 121, 32, 102,
        111, 117, 110, 100>>,
    \* "promo code"
    promoCode |-> <<112, 114, 111, 109, 111, 32, 99, 111, 100, 101>>,
    \* "promo code "
    promoCodeSp |-> <<112, 114, 111, 109, 111, 32, 99, 111, 100, 101,
        32>>,
    \* "shipping to "
    shippingTo |-> <<115, 104, 105, 112, 112, 105, 110, 103, 32, 116, 111,
        32>>,
    \* "jeans"
    jeans |-> <<106, 101, 97, 110, 115>>,
    \* ". "
    dotSp |-> <<46, 32>>,
    \* "   Price: $"
    Price |-> <<32, 32, 32, 80, 114, 105, 99, 101, 58, 32, 36>>,
    \* " (Shipping: $"
    ShippingParen |-> <<32, 40, 83, 104, 105, 112, 112, 105, 110, 103, 58,
        32, 36>>,
    \* "   Return Policy: "
    ReturnPolicy |-> <<32, 32, 32, 82, 101, 116, 117, 114, 110, 32, 80,
        111, 108, 105, 99, 121, 58, 32>>,
    \* "Here are your best options:\n"
    HereAre |-> <<72, 101, 114, 101, 32, 97, 114, 101, 32, 121, 111, 117,
        114, 32, 98, 101, 115, 116, 32, 111, 112, 116, 105, 111, 110, 115,
        58, 10>> ]

\* strings handed to the tools directly
TI == [
    \* "DRESS"
    DRESS |-> <<68, 82, 69, 83, 83>>,
    \* "e"
    e |-> <<101>>,
    \* "BLUE"
    BLUE |-> <<66, 76, 85, 69>>,
    \* "m"
    m |-> <<109>>,
    \* "save10"
    save10 |-> <<115, 97, 118, 101, 49, 48>>,
    \* "BOGUS"
    BOGUS |-> <<66, 79, 71, 85, 83>>,
    \* "Unknown"
    Unknown |-> <<85, 110, 107, 110, 111, 119, 110>> ]

\* the pieces of text queries are built from
QP == [
    \* "Find a floral skirt under $40 in size S. Is it in stock, and can I apply a discount code 'SAVE10'?"
    Full |-> <<70, 105, 110, 100, 32, 97, 32, 102, 108, 111, 114, 97, 108,
        32, 115, 107, 105, 114, 116, 32, 117, 110, 100, 101, 114, 32, 36,
        52, 48, 32, 105, 110, 32, 115, 105, 122, 101, 32, 83, 46, 32, 73,
        115, 32, 105, 116, 32, 105, 110, 32, 115, 116, 111, 99, 107, 44,
        32, 97, 110, 100, 32, 99, 97, 110, 32, 73, 32, 97, 112, 112, 108,
        121, 32, 97, 32, 100, 105, 115, 99, 111, 117, 110, 116, 32, 99,
        111, 100, 101, 32, 39, 83, 65, 86, 69, 49, 48, 39, 63>>,
    \* "under $"
    underDollar |-> <<117, 110, 100, 101, 114, 32, 36>>,
    \* "Blue "
    Blue |-> <<66, 108, 117, 101, 32>>,
    \* "red dress "
    redDress |-> <<114, 101, 100, 32, 100, 114, 101, 115, 115, 32>>,
    \* "promo code "
    promoCode |-> <<112, 114, 111, 109, 111, 32, 99, 111, 100, 101, 32>>,
    \* "shipping to "
    shippingTo |-> <<115, 104, 105, 112, 112, 105, 110, 103, 32, 116, 111,
        32>>,
    \* "return SiteA "
    returnSiteA |-> <<114, 101, 116, 117, 114, 110, 32, 83, 105, 116, 101,
        65, 32>>,
    \* "better deals "
    betterDeals |-> <<98, 101, 116, 116, 101, 114, 32, 100, 101, 97, 108,
        115, 32>>,
    \* "Exit"
    Exit |-> <<69, 120, 105, 116>>,
    \* "hello "
    hello |-> <<104, 101, 108, 108, 111, 32>> ]

\* texts the properties look for in a response
PT == [
    \* "- Floral Summer Skirt (Blue, size S) at $35.99 from FashionHub"
    ProductLine |-> <<45, 32, 70, 108, 111, 114, 97, 108, 32, 83, 117,
        109, 109, 101, 114, 32, 83, 107, 105, 114, 116, 32, 40, 66, 108,
        117, 101, 44, 32, 115, 105, 122, 101, 32, 83, 41, 32, 97, 116, 32,
        36, 51, 53, 46, 57, 57, 32, 102, 114, 111, 109, 32, 70, 97, 115,
        104, 105, 111, 110, 72, 117, 98>>,
    \* "  Applied code 'SAVE10' for 10% off. Final price: $32.39"
    Applied |-> <<32, 32, 65, 112, 112, 108, 105, 101, 100, 32, 99, 111,
        100, 101, 32, 39, 83, 65, 86, 69, 49, 48, 39, 32, 102, 111, 114,
        32, 49, 48, 37, 32, 111, 102, 102, 46, 32, 70, 105, 110, 97, 108,
        32, 112, 114, 105, 99, 101, 58, 32, 36, 51, 50, 46, 51, 57>>,
    \* "  Shipping: $5.99, Estimated delivery: "
    Shipping599 |-> <<32, 32, 83, 104, 105, 112, 112, 105, 110, 103, 58,
        32, 36, 53, 46, 57, 57, 44, 32, 69, 115, 116, 105, 109, 97, 116,
        101, 100, 32, 100, 101, 108, 105, 118, 101, 114, 121, 58, 32>>,
    \* "2024-02-29"
    LeapDay |-> <<50, 48, 50, 52, 45, 48, 50, 45, 50, 57>>,
    \* "Return Policy for SiteA:"
    ReturnPolicyForSiteA |-> <<82, 101, 116, 117, 114, 110, 32, 80, 111,
        108, 105, 99, 121, 32, 102, 111, 114, 32, 83, 105, 116, 101, 65,
        58>> ]
----------------------------------------------------------------------------
(* tools.py: the mock tables.                                              *)

Product(id, name, price, color, size, store, in_stock) ==
    [id |-> id, name |-> name, price |-> price, color |-> color,
     size |-> size, store |-> store, in_stock |-> in_stock]

\* prices in cents
MOCK_PRODUCTS == <<
    Product("1", TL.FloralSummerSkirt, 3599, TL.Blue, TL.S, TL.FashionHub, TRUE),
    Product("2", TL.WhiteSneakers, 6599, TL.White, TL.n8, TL.SneakerWorld, TRUE),
    Product("3", TL.CasualDenimJacket, 7999, TL.Blue, TL.M, TL.SiteA, TRUE),
    Product("4", TL.CocktailDress, 8999, TL.Black, TL.M, TL.SiteB, TRUE) >>

\* MOCK_STORES.keys(), in insertion order
StoreOrder == <<TL.FashionHub, TL.SneakerWorld, TL.SiteA, TL.SiteB>>

\* shipping_base in cents, free_shipping_threshold in dollars
MOCK_STORES ==
    [s \in {StoreOrder[i] : i \in 1..Len(StoreOrder)} |->
        CASE s = TL.FashionHub   -> [shipping_base |-> 599, free_shipping_threshold |-> 50]
          [] s = TL.SneakerWorld -> [shipping_base |-> 799, free_shipping_threshold |-> 75]
          [] s = TL.SiteA        -> [shipping_base |-> 499, free_shipping_threshold |-> 60]
          [] s = TL.SiteB        -> [shipping_base |-> 699, free_shipping_threshold |-> 80]]

ReturnPolicy(store, days, free, conditions) ==
    [store |-> store, days_to_return |-> days, free_returns |-> free,
     conditions |-> conditions]

\* MOCK_RETURN_POLICIES without the record of SiteA
MOCK_RETURN_POLICIES_NoSiteA ==
    [s \in {TL.FashionHub, TL.SneakerWorld, TL.SiteB} |->
        CASE s = TL.FashionHub ->
                ReturnPolicy(s, 30, TRUE, <<TL.ItemsMustBeUnworn, TL.OriginalTagsAttached>>)
          [] s = TL.SneakerWorld ->
                ReturnPolicy(s, 45, TRUE, <<TL.UnwornCondition, TL.OriginalBoxRequired>>)
          [] s = TL.SiteB ->
                ReturnPolicy(s, 30, TRUE, <<TL.FreeReturnsWithin30Days, TL.OriginalCondition>>)]

MOCK_RETURN_POLICIES ==
    [s \in {TL.FashionHub, TL.SneakerWorld, TL.SiteA, TL.SiteB} |->
        CASE s = TL.FashionHub ->
                ReturnPolicy(s, 30, TRUE, <<TL.ItemsMustBeUnworn, TL.OriginalTagsAttached>>)
          [] s = TL.SneakerWorld ->
                ReturnPolicy(s, 45, TRUE, <<TL.UnwornCondition, TL.OriginalBoxRequired>>)
          [] s = TL.SiteA ->
                ReturnPolicy(s, 14, FALSE, <<TL.StoreCreditOnly, TL.Within14Days>>)
          [] s = TL.SiteB ->
                ReturnPolicy(s, 30, TRUE, <<TL.FreeReturnsWithin30Days, TL.OriginalCondition>>)]

\* the elements of a sequence that satisfy a test, in order
RECURSIVE SelectIdx(_, _, _)
SelectIdx(seq, i, Keep) ==
    IF i > Len(seq) THEN <<>>
    ELSE (IF i \in Keep THEN <<seq[i]>> ELSE <<>>) \o SelectIdx(seq, i + 1, Keep)

(* tools.search_products: q is the criteria dict; name, color and size are  *)
(* strings and max_price is an amount in cents.                            *)
\* ProductMatches with the colour compared as written, not in lower case
ProductMatches_CaseSensitive(q, p) ==
    /\ ~(Has(q, "name") /\ ~Contains(Lower(p.name), Lower(q["name"])))
    /\ ~(Has(q, "max_price") /\ p.price > q["max_price"])
    /\ ~(Has(q, "color") /\ q["color"] # p.color)
    /\ ~(Has(q, "size") /\ Lower(q["size"]) # Lower(p.size))

ProductMatches(q, p) ==
    /\ ~(Has(q, "name") /\ ~Contains(Lower(p.name), Lower(q["name"])))
    /\ ~(Has(q, "max_price") /\ p.price > q["max_price"])
    /\ ~(Has(q, "color") /\ Lower(q["color"]) # Lower(p.color))
    /\ ~(Has(q, "size") /\ Lower(q["size"]) # Lower(p.size))

search_products(q) ==
    SelectIdx(MOCK_PRODUCTS, 1,
              {i \in 1..Len(MOCK_PRODUCTS) : ProductMatches(q, MOCK_PRODUCTS[i])})

----------------------------------------------------------------------------
(* Dates: datetime.now() + timedelta(days = n), and strftime("%Y-%m-%d").   *)

IsLeap(y) == (y % 4 = 0 /\ y % 100 # 0) \/ y % 400 = 0

DaysInMonth(y, m) ==
    IF m = 2 THEN (IF IsLeap(y) THEN 29 ELSE 28)
    ELSE IF m \in {4, 6, 9, 11} THEN 30 ELSE 31

NextDay(d) ==
    IF d.d < DaysInMonth(d.y, d.m) THEN [d EXCEPT !.d = d.d + 1]
    ELSE IF d.m < 12 THEN [y |-> d.y, m |-> d.m + 1, d |-> 1]
    ELSE [y |-> d.y + 1, m |-> 1, d |-> 1]

RECURSIVE AddDays(_, _)
AddDays(d, n) == IF n = 0 THEN d ELSE AddDays(NextDay(d), n - 1)

\* strftime("%Y-%m-%d"), for a year of four digits
DateStr(d) == NatStr(d.y) \o <<45>> \o Two(d.m) \o <<45>> \o Two(d.d)

(* tools.estimate_shipping.  The lookup MOCK_STORES[product.store] raises   *)
(* KeyError for a store the table does not hold.  cost is in cents.         *)
ShippingCost(product) ==
    LET store_info == MOCK_STORES[product.store]
    IN  IF product.price >= 100 * store_info.free_shipping_threshold
        THEN 0 ELSE store_info.shipping_base

\* EstimatedDays with the two day counts exchanged
EstimatedDays_Swapped(shipping_cost) == IF shipping_cost = 0 THEN 5 ELSE 3

EstimatedDays(shipping_cost) == IF shipping_cost = 0 THEN 3 ELSE 5

estimate_shipping(product) ==
    IF product.store \notin DOMAIN MOCK_STORES
    THEN [raised |-> "KeyError"]
    ELSE LET shipping_cost == ShippingCost(product)
             estimated_days == EstimatedDays(shipping_cost)
         IN  [raised |-> "none", available |-> TRUE, cost |-> shipping_cost,
              estimated_days |-> estimated_days,
              estimated_delivery_date |-> DateStr(AddDays(now, estimated_days))]

(* tools.check_discount: code is an optional string (None or Some(s));      *)
(* final_price is in 1/10000 of a dollar: price * (1 - discount/100).       *)
ValidCodes == {TL.SAVE10, TL.SUMMER20, TL.WELCOME15}

DiscountOf(s) ==
    CASE s = TL.SAVE10 -> 10
      [] s = TL.SUMMER20 -> 20
      [] s = TL.WELCOME15 -> 15

CodeIsValid(code) == code.some /\ code.val \in ValidCodes

\* check_discount returning the amount taken off as the final price
check_discount_AmountOff(product, code) ==
    IF CodeIsValid(code)
    THEN [code |-> code, valid |-> TRUE, discount_percentage |-> DiscountOf(code.val),
          final_price |-> product.price * DiscountOf(code.val)]
    ELSE [code |-> code, valid |-> FALSE, discount_percentage |-> 0,
          final_price |-> product.price * 100]

check_discount(product, code) ==
    IF CodeIsValid(code)
    THEN [code |-> code, valid |-> TRUE, discount_percentage |-> DiscountOf(code.val),
          final_price |-> product.price * (100 - DiscountOf(code.val))]
    ELSE [code |-> code, valid |-> FALSE, discount_percentage |-> 0,
          final_price |-> product.price * 100]

(* hash(s) of a str: Python keys its string hash with a value drawn once    *)
(* per process, so within a run it is one fixed function of the string and  *)
(* across runs an arbitrary one.  The model draws the key (seed) when the   *)
(* run starts and mixes it with the characters; the result is signed.      *)
RECURSIVE HashMix(_, _)
HashMix(s, h) ==
    IF Len(s) = 0 THEN h
    ELSE HashMix(Tail(s), (h * 31 + Head(s)) % 65536)

PyHash(s) == HashMix(s, (seed * 7919 + 17) % 65536) - 32768

(* tools.compare_prices: one entry per key of MOCK_STORES other than the    *)
(* product's own store; offset is the price difference in dollars.         *)
PriceDiff(store, product) == (PyHash(store \o product.name) % 30) - 15

Comparison(store, product) ==
    [store |-> store,
     price |-> product.price + 100 * PriceDiff(store, product),
     in_stock |-> (PyHash(store \o product.name) % 2) # 0,
     link |-> TL.https \o Lower(store) \o TL.comProducts
              \o ReplaceCh(Lower(product.name), 32, 45)]

\* compare_prices without the test store != product.store
compare_prices_AllStores(product) ==
    [i \in 1..Len(StoreOrder) |-> Comparison(StoreOrder[i], product)]

compare_prices(product) ==
    LET others == SelectIdx(StoreOrder, 1,
                     {i \in 1..Len(StoreOrder) : StoreOrder[i] # product.store})
    IN  [i \in 1..Len(others) |-> Comparison(others[i], product)]

(* tools.get_return_policy: MOCK_RETURN_POLICIES.get(store), None when the  *)
(* store has no policy.                                                    *)
get_return_policy(store) ==
    IF store \in DOMAIN MOCK_RETURN_POLICIES
    THEN [some |-> TRUE, val |-> MOCK_RETURN_POLICIES[store]]
    ELSE [some |-> FALSE]

----------------------------------------------------------------------------
(* agent.py: ShoppingAgent.                                                *)

\* the first element of a list of keywords that occurs in q, as the loops
\* "for color in colors: if color in query: ...; break" find it
RECURSIVE FirstIn(_, _, _)
FirstIn(words, i, q) ==
    IF i > Len(words) THEN <<>>
    ELSE IF Contains(q, words[i]) THEN <<words[i]>>
    ELSE FirstIn(words, i + 1, q)

AgentColors == <<AL.white, AL.black, AL.blue, AL.red, AL.green, AL.yellow, AL.purple, AL.pink>>
AgentProductTypes == <<AL.skirt, AL.sneakers, AL.jacket, AL.dress>>

\* each step of _parse_query, applied to the dict built so far
ParsePrice(q, d) ==
    LET price_match == SearchGroup(q, AL.underDollar, DigitChars, <<>>)
    IN  IF Contains(q, AL.underDollar) /\ price_match # <<>>
        THEN Put(d, "max_price", 100 * DigitsValue(price_match)) ELSE d

ParseSize(q, d) ==
    LET size_match == SearchGroup(q, AL.sizeSp, WordChars, <<>>)
    IN  IF Contains(q, AL.size) /\ size_match # <<>>
        THEN Put(d, "size", size_match) ELSE d

ParseColor(q, d) ==
    LET c == FirstIn(AgentColors, 1, q)
    IN  IF c # <<>> THEN Put(d, "color", c[1]) ELSE d

ParseName(q, d) ==
    LET p == FirstIn(AgentProductTypes, 1, q)
    IN  IF p # <<>> THEN Put(d, "name", p[1]) ELSE d

ParseCode(q, d) ==
    LET code_match == SearchGroup(q, AL.codeQuote, WordChars, AL.quote)
    IN  IF Contains(q, AL.code) /\ code_match # <<>>
        THEN Put(d, "discount_code", code_match) ELSE d

\* ShoppingAgent._parse_query: it never raises
_parse_query(text) ==
    LET q == Lower(text)
    IN  ParseCode(q, ParseName(q, ParseColor(q, ParseSize(q, ParsePrice(q, EmptyDict)))))

\* the lines process_query adds for one product
DiscountLines(pq, product) ==
    IF ~Has(pq, "discount_code") THEN <<>>
    ELSE LET discount == check_discount(product, Some(pq["discount_code"]))
         IN  IF discount.valid
             THEN << AL.AppliedCode \o discount.code.val \o AL.quoteFor
                     \o NatStr(discount.discount_percentage) \o AL.pctOff
                     \o Fmt2(RoundCents(discount.final_price)) >>
             ELSE << AL.DiscountCode \o discount.code.val \o AL.isInvalid >>

ShippingLine(shipping) ==
    AL.Shipping \o Fmt2(shipping.cost) \o AL.EstimatedDelivery
    \o shipping.estimated_delivery_date

ComparisonLine(comp) ==
    AL.n4sp \o comp.store \o AL.colonDollar \o Fmt2(comp.price) \o AL.openParen
    \o (IF comp.in_stock THEN AL.InStock ELSE AL.OutOfStock) \o AL.closeParen

WantsComparison(text) ==
    Contains(Lower(text), AL.betterDeals) \/ Contains(Lower(text), AL.priceComparison)

ComparisonLines(text, product) ==
    IF ~WantsComparison(text) THEN <<>>
    ELSE LET comparisons == compare_prices(product)
         IN  <<AL.PriceComparisons>>
             \o [i \in 1..Len(comparisons) |-> ComparisonLine(comparisons[i])]

ProductLine(product) ==
    AL.dash \o product.name \o AL.openParen \o product.color \o AL.commaSize
    \o product.size \o AL.atDollar \o Fmt2(product.price) \o AL.from \o product.store

ProductBlock(text, pq, product) ==
    <<ProductLine(product)>>
    \o DiscountLines(pq, product)
    \o <<ShippingLine(estimate_shipping(product))>>
    \o ComparisonLines(text, product)

RECURSIVE ProductBlocks(_, _, _)
ProductBlocks(text, pq, products) ==
    IF Len(products) = 0 THEN <<>>
    ELSE ProductBlock(text, pq, Head(products)) \o ProductBlocks(text, pq, Tail(products))

SearchKeys == {"name", "max_price", "color", "size"}

\* whether process_query runs the search
Searches(pq) == (DOMAIN pq) \cap SearchKeys # {}

FoundLine(n) == AL.Found \o NatStr(n) \o AL.matchingProducts

\* SearchPart without the else branch: an empty result is announced like any
SearchPart_FoundZero(text, pq) ==
    IF ~Searches(pq) THEN <<>>
    ELSE LET products == search_products(pq)
         IN  <<FoundLine(Len(products))>> \o ProductBlocks(text, pq, products)

\* the "# Search for products" part of process_query
SearchPart(text, pq) ==
    IF ~Searches(pq) THEN <<>>
    ELSE LET products == search_products(pq)
         IN  IF Len(products) > 0
             THEN <<FoundLine(Len(products))>> \o ProductBlocks(text, pq, products)
             ELSE <<AL.Sorry>>

\* the stores process_query looks for in the query, in the order it tries them
ReturnStores == <<TL.SiteA, TL.SiteB, TL.FashionHub, TL.SneakerWorld>>

RECURSIVE FirstStoreIn(_, _)
FirstStoreIn(i, q) ==
    IF i > Len(ReturnStores) THEN None
    ELSE IF Contains(q, Lower(ReturnStores[i])) THEN Some(ReturnStores[i])
    ELSE FirstStoreIn(i + 1, q)

\* the store whose return policy process_query reports, None when it reports none
ReturnStore(text) ==
    IF Contains(Lower(text), AL.return) THEN FirstStoreIn(1, Lower(text)) ELSE None

PolicyLines(store, policy) ==
    << AL.nlReturnPolicyFor \o store \o AL.colon,
       AL.dash \o NatStr(policy.days_to_return) \o AL.daysToReturn,
       AL.dash \o (IF policy.free_returns THEN AL.FreeReturns ELSE AL.PaidReturns),
       AL.Conditions >>
    \o [i \in 1..Len(policy.conditions) |-> AL.star \o policy.conditions[i]]

\* the "# Check return policy" part of process_query
ReturnPart(text) ==
    LET store == ReturnStore(text)
    IN  IF store.some THEN PolicyLines(store.val, get_return_policy(store.val).val)
        ELSE <<>>

\* the exception process_query surfaces, "none" when it returns: KeyError
\* from estimate_shipping, AttributeError from reading a field of None
ProcessRaises(text, pq) ==
    LET products == IF Searches(pq) THEN search_products(pq) ELSE <<>>
        store == ReturnStore(text)
    IN  IF \E i \in 1..Len(products) : estimate_shipping(products[i]).raised # "none"
        THEN "KeyError"
        ELSE IF store.some /\ ~get_return_policy(store.val).some
        THEN "AttributeError"
        ELSE "none"

\* ShoppingAgent.process_query: the text returned, with the parsed query and
\* the ids of the products found
process_query(text) ==
    LET pq == _parse_query(text)
        products == IF Searches(pq) THEN search_products(pq) ELSE <<>>
        exc == ProcessRaises(text, pq)
    IN  [raised |-> exc,
         parsed |-> pq,
         matched |-> [i \in 1..Len(products) |-> products[i].id],
         text |-> IF exc = "none"
                  THEN Join(<<10>>, SearchPart(text, pq) \o ReturnPart(text))
                  ELSE <<>>]

----------------------------------------------------------------------------
(* main.py: the tools of the ShoppingAssistant (prices in cents).           *)

AsstProduct(name, price, color, size, store) ==
    [name |-> name, price |-> price, color |-> color, size |-> size, store |-> store]

mock_products == <<
    AsstProduct(ML.RedSummerDress, 4599, AL.red, TL.M, TL.FashionHub),
    AsstProduct(ML.BlueJeans, 5999, AL.blue, TL.L, ML.ShopStyle),
    AsstProduct(ML.BlackSneakers, 7999, AL.black, TL.n10, ML.ShoePalace) >>

\* an optional argument is falsy when it is None or the empty string
Truthy(opt) == opt.some /\ Len(opt.val) > 0

\* main.search_products(name, color, min_price, max_price, size)
AsstMatches(p, name, color, min_price, max_price, size) ==
    /\ (Truthy(name) => Contains(Lower(p.name), Lower(name.val)))
    /\ (Truthy(color) => color.val = p.color)
    /\ min_price <= p.price /\ p.price <= max_price
    /\ (Truthy(size) => size.val = p.size)

asst_search_products(name, color, min_price, max_price, size) ==
    SelectIdx(mock_products, 1,
              {i \in 1..Len(mock_products) :
                  AsstMatches(mock_products[i], name, color, min_price, max_price, size)})

\* main.estimate_shipping(user_location, delivery_date): cost in cents
asst_estimate_shipping(user_location) ==
    [feasible |-> TRUE,
     cost |-> IF Contains(user_location, ML.NewYork) THEN 500 ELSE 1500,
     delivery_date |-> (IF Contains(user_location, ML.NewYork) THEN <<51>> ELSE <<55>>)
                       \o ML.businessDays]

\* main.apply_promo_code(base_price, promo_code): promo_db.get(code, 0), in
\* percent; the result is in 1/10000 of a dollar
PromoPercent(promo_code) ==
    IF promo_code.some /\ promo_code.val = TL.SUMMER20 THEN 20 ELSE 0

apply_promo_code(base_price, promo_code) == base_price * (100 - PromoPercent(promo_code))

\* main.compare_prices(product_name)
asst_compare_prices(product_name) ==
    CASE product_name = ML.RedSummerDress ->
            << [store |-> TL.FashionHub, price |-> 4599],
               [store |-> ML.StyleMart, price |-> 4250],
               [store |-> ML.TrendyStore, price |-> 4999] >>
      [] product_name = ML.BlueJeans ->
            << [store |-> ML.ShopStyle, price |-> 5999],
               [store |-> ML.DenimWorld, price |-> 5499] >>
      [] OTHER -> <<>>

\* main.check_return_policy(store_name)
check_return_policy(store_name) ==
    CASE store_name = TL.FashionHub -> ML.n30dayReturns
      [] store_name = ML.ShopStyle -> ML.n14dayReturns
      [] store_name = ML.StyleMart -> ML.n7dayReturns
      [] store_name = ML.TrendyStore -> ML.ExchangeOnly
      [] store_name = ML.DenimWorld -> TL.StoreCreditOnly
      [] OTHER -> ML.NoPolicyFound

(* float(tok) for a token of the query.  The decimal forms are covered:     *)
(* an optional sign, then digits with an optional point (40, 40., 4.5, .5). *)
(* The exponent form, inf, nan and digit-separating underscores are not:    *)
(* no token the model's queries hold starts with a digit or a point and     *)
(* goes on with one of them.                                               *)
Unsigned(tok) ==
    IF Len(tok) > 0 /\ tok[1] \in {43, 45} THEN Tail(tok) ELSE tok

IsFloatLiteral(tok) ==
    LET u == Unsigned(tok)
        ip == RunLen(u, 1, DigitChars)
        hasPoint == ip < Len(u) /\ u[ip + 1] = 46
        fp == IF hasPoint THEN RunLen(u, ip + 2, DigitChars) ELSE 0
    IN  /\ ip + fp > 0
        /\ ip + (IF hasPoint THEN 1 ELSE 0) + fp = Len(u)

\* float(tok) in cents, cut to whole cents: a price p (in cents, never
\* negative) is <= float(tok) exactly when p <= FloatCents(tok)
FloatCents(tok) ==
    LET u == Unsigned(tok)
        ip == RunLen(u, 1, DigitChars)
        frac == SubSeq(u, ip + 2, Len(u)) \o <<48, 48>>
    IN  (IF Len(tok) > 0 /\ tok[1] = 45 THEN -1 ELSE 1)
        * (100 * DigitsValue(SubSeq(u, 1, ip)) + DigitsValue(SubSeq(frac, 1, 2)))

(* ShoppingAssistant.parse_query: each marker's step, on the dict so far.   *)
(* A step gives [raised, val]; text.split(sep)[1].split()[0] raises         *)
(* IndexError when nothing follows, float() ValueError on a non-number.    *)
AfterMarker(text, sep) == FirstToken(SplitSecond(text, sep))

AsstParsePrice(text, d) ==
    IF ~Contains(text, AL.underDollar) THEN [raised |-> "none", val |-> d]
    ELSE LET tok == AfterMarker(text, AL.underDollar)
         IN  IF tok = <<>> THEN [raised |-> "IndexError", val |-> d]
             ELSE IF ~IsFloatLiteral(tok) THEN [raised |-> "ValueError", val |-> d]
             ELSE [raised |-> "none", val |-> Put(d, "max_price", FloatCents(tok))]

AsstParsePromo(text, d) ==
    IF ~Contains(text, ML.promoCode) THEN [raised |-> "none", val |-> d]
    ELSE IF ~Contains(text, ML.promoCodeSp) \/ AfterMarker(text, ML.promoCodeSp) = <<>>
         THEN [raised |-> "IndexError", val |-> d]
         ELSE [raised |-> "none",
               val |-> Put(d, "promo_code", Some(AfterMarker(text, ML.promoCodeSp)))]

AsstParseLocation(text, d) ==
    IF ~Contains(text, ML.shippingTo) THEN [raised |-> "none", val |-> d]
    ELSE IF AfterMarker(text, ML.shippingTo) = <<>>
         THEN [raised |-> "IndexError", val |-> d]
         ELSE [raised |-> "none",
               val |-> Put(d, "location", AfterMarker(text, ML.shippingTo))]

AsstColors == <<AL.red, AL.blue, AL.black>>

AsstParseColor(text, d) ==
    LET c == FirstIn(AsstColors, 1, Lower(text))
    IN  IF c # <<>> THEN Put(d, "color", c[1]) ELSE d

AsstProductTypes == <<AL.dress, ML.jeans, AL.sneakers>>

AsstParseProduct(text, d) ==
    LET p == FirstIn(AsstProductTypes, 1, Lower(text))
    IN  IF p # <<>> THEN Put(d, "product", p[1]) ELSE d

AsstDefaults == Put(Put(EmptyDict, "promo_code", None), "location", ML.NewYork)

parse_query(text) ==
    LET a == AsstParsePrice(text, AsstDefaults)
        b == IF a.raised = "none" THEN AsstParsePromo(text, a.val) ELSE a
        c == IF b.raised = "none" THEN AsstParseLocation(text, b.val) ELSE b
    IN  IF c.raised = "none"
        THEN [raised |-> "none", val |-> AsstParseProduct(text, AsstParseColor(text, c.val))]
        ELSE [raised |-> c.raised, val |-> EmptyDict]

\* dict.get(key) as an optional value
Get(d, k) == IF Has(d, k) THEN Some(d[k]) ELSE None

\* PlanProducts with a default price ceiling of $50
PlanProducts_Ceiling50(pq) ==
    asst_search_products(Get(pq, "product"), Get(pq, "color"), 0,
                         IF Has(pq, "max_price") THEN pq["max_price"] ELSE 5000,
                         None)

\* ShoppingAssistant.execute_plan, step 1: the products searched
PlanProducts(pq) ==
    asst_search_products(Get(pq, "product"), Get(pq, "color"), 0,
                         IF Has(pq, "max_price") THEN pq["max_price"] ELSE 100000,
                         None)

\* step 2: each product followed by its competitors' offers
Offers(p) ==
    LET competitors == asst_compare_prices(p.name)
    IN  <<p>> \o [i \in 1..Len(competitors) |->
                    [p EXCEPT !.store = competitors[i].store,
                              !.price = competitors[i].price]]

RECURSIVE AllOptions(_)
AllOptions(products) ==
    IF Len(products) = 0 THEN <<>>
    ELSE Offers(Head(products)) \o AllOptions(Tail(products))

\* step 3: one result per option
PlanResult(pq, item) ==
    [name |-> item.name,
     store |-> item.store,
     final_price |-> RoundCents(apply_promo_code(item.price,
                        IF Has(pq, "promo_code") THEN pq["promo_code"] ELSE None)),
     shipping_cost |-> asst_estimate_shipping(pq["location"]).cost,
     return_policy |-> check_return_policy(item.store)]

execute_plan(pq) ==
    LET all_options == AllOptions(PlanProducts(pq))
    IN  [i \in 1..Len(all_options) |-> PlanResult(pq, all_options[i])]

\* ShoppingAssistant.generate_response
ResultBlock(idx, item) ==
    <<10>> \o NatStr(idx) \o ML.dotSp \o item.name \o AL.from \o item.store \o <<10>>
    \o ML.Price \o FloatStr(item.final_price)
    \o ML.ShippingParen \o FloatStr(item.shipping_cost) \o AL.closeParen \o <<10>>
    \o ML.ReturnPolicy \o item.return_policy \o <<10>>

generate_response(results) ==
    IF Len(results) = 0 THEN AL.Sorry
    ELSE ML.HereAre \o Concat([i \in 1..Len(results) |-> ResultBlock(i, results[i])])

----------------------------------------------------------------------------
(* The inputs.                                                             *)

\* a query is up to MaxFrags of these pieces of text, one after the other
MaxFrags == 2

Fragments == { QP.Full, QP.underDollar, QP.Blue, QP.redDress, QP.promoCode,
               QP.shippingTo, QP.returnSiteA, QP.betterDeals, QP.Exit, QP.hello }

RECURSIVE FragSeqs(_)
FragSeqs(n) ==
    IF n = 0 THEN {<<>>}
    ELSE LET shorter == FragSeqs(n - 1)
         IN  shorter \cup {Append(fs, f) : fs \in shorter, f \in Fragments}

Queries == {Concat(fs) : fs \in FragSeqs(MaxFrags)}

\* a line typed at the prompt of the interactive loop is up to MaxLineFrags
\* of the pieces
MaxLineFrags == 1

Lines == {Concat(fs) : fs \in FragSeqs(MaxLineFrags)}

\* the dates a run may start on: a day in mid-month, the days before a leap
\* day and before the end of a month and of a year
Dates == { [y |-> 2026, m |-> 11, d |-> 5],
           [y |-> 2024, m |-> 2, d |-> 26],
           [y |-> 2025, m |-> 12, d |-> 28] }

\* midnights that may pass during a run
MaxTicks == 1

\* the keys of the string hash a run may draw: 0..MaxSeed
MaxSeed == 1

\* lines the interactive loop reads before standard input ends
MaxLines == 2

\* a criteria dict from four optional filters
Criteria(name, color, size, max_price) ==
    LET a == IF name.some THEN Put(EmptyDict, "name", name.val) ELSE EmptyDict
        b == IF color.some THEN Put(a, "color", color.val) ELSE a
        c == IF size.some THEN Put(b, "size", size.val) ELSE b
    IN  IF max_price.some THEN Put(c, "max_price", max_price.val) ELSE c

NameFilters == {None, Some(AL.skirt), Some(TI.DRESS), Some(TI.e), Some(<<>>)}
ColorFilters == {None, Some(AL.blue), Some(TI.BLUE), Some(AL.red)}
SizeFilters == {None, Some(TI.m), Some(TL.S), Some(TL.n8)}
PriceFilters == {None, Some(3598), Some(3599), Some(7000), Some(10000)}

\* products handed to the tools directly: the table's, the table's at other
\* prices, and one of a store the tables do not hold
TestPrices == {0, 1, 4999, 5000, 10000}
OtherStoreProduct == Product("9", ML.BlueJeans, 5999, AL.blue, TL.L, ML.ShopStyle, TRUE)
TableProducts == {MOCK_PRODUCTS[i] : i \in 1..Len(MOCK_PRODUCTS)}
TestProducts ==
    TableProducts \cup {[p EXCEPT !.price = c] : p \in TableProducts, c \in TestPrices}

TestCodes == {None, Some(TL.SAVE10), Some(TI.save10), Some(TL.SUMMER20),
              Some(TL.WELCOME15), Some(TI.BOGUS), Some(<<>>)}

TestStores == (DOMAIN MOCK_STORES) \cup {ML.ShopStyle, TI.Unknown}

----------------------------------------------------------------------------
(* agent.main: the interactive loop.                                       *)

Init ==
    /\ pc = "ask"
    /\ nRead = 0
    /\ query = <<>>
    /\ parsed = EmptyDict
    /\ matched = <<>>
    /\ response = <<>>
    /\ lastOut = AL.Banner
    /\ nProc = 0
    /\ nPrinted = 0
    /\ raised = "none"
    /\ now \in Dates
    /\ ticks = 0
    /\ seed \in 0..MaxSeed
    /\ call = [fn |-> "none"]

\* the head of the loop: print("\nWhat would you like to know? ").  The
\* locals of the iteration before (query, response, and parsed_query and
\* products of process_query) are dead here, and are cleared
Ask ==
    /\ pc = "ask"
    /\ lastOut' = AL.Ask
    /\ pc' = "input"
    /\ query' = <<>>
    /\ parsed' = EmptyDict
    /\ matched' = <<>>
    /\ response' = <<>>
    /\ UNCHANGED <<nRead, nProc, nPrinted, raised, now, ticks, seed, call>>

\* query = input("> ")
Input(line) ==
    /\ pc = "input"
    /\ nRead < MaxLines
    /\ query' = line
    /\ nRead' = nRead + 1
    /\ lastOut' = AL.prompt
    /\ pc' = "dispatch"
    /\ UNCHANGED <<parsed, matched, response, nProc, nPrinted, raised, now, ticks, seed, call>>

\* input() at the end of standard input raises EOFError
InputEOF ==
    /\ pc = "input"
    /\ lastOut' = AL.prompt
    /\ raised' = "EOFError"
    /\ pc' = "crashed"
    /\ UNCHANGED <<nRead, query, parsed, matched, response, nProc, nPrinted, now, ticks, seed, call>>

\* IsExit comparing the line as typed
IsExit_CaseSensitive(line) == line = AL.exit

\* the test of the line read: query.lower() == 'exit'
IsExit(line) == Lower(line) = AL.exit

\* if query.lower() == 'exit': print the farewell; break
Exit ==
    /\ pc = "dispatch"
    /\ IsExit(query)
    /\ lastOut' = AL.Farewell
    /\ pc' = "done"
    /\ UNCHANGED <<nRead, query, parsed, matched, response, nProc, nPrinted, raised, now, ticks, seed, call>>

\* response = agent.process_query(query)
Process ==
    /\ pc = "dispatch"
    /\ ~IsExit(query)
    /\ LET r == process_query(query)
       IN  /\ nProc' = nProc + 1
           /\ parsed' = r.parsed
           /\ matched' = r.matched
           /\ response' = r.text
           /\ raised' = r.raised
           /\ pc' = IF r.raised = "none" THEN "print" ELSE "crashed"
    /\ UNCHANGED <<nRead, query, lastOut, nPrinted, now, ticks, seed, call>>

\* print("\n" + response)
PrintResponse ==
    /\ pc = "print"
    /\ lastOut' = <<10>> \o response
    /\ nPrinted' = nPrinted + 1
    /\ pc' = "ask"
    /\ UNCHANGED <<nRead, query, parsed, matched, response, nProc, raised, now, ticks, seed, call>>

\* midnight passes: datetime.now() gives the next day
Tick ==
    /\ ticks < MaxTicks
    /\ ticks' = ticks + 1
    /\ now' = NextDay(now)
    /\ UNCHANGED <<pc, nRead, query, parsed, matched, response, lastOut, nProc,
                   nPrinted, raised, seed, call>>

Next ==
    \/ Ask
    \/ \E line \in Lines : Input(line)
    \/ InputEOF
    \/ Exit
    \/ Process
    \/ PrintResponse
    \/ Tick

Spec == Init /\ [][Next]_vars

----------------------------------------------------------------------------
(* The functions called directly, on inputs of the sets above: a run makes  *)
(* one call, and may call compare_prices again after a compare_prices.     *)

Called(c) ==
    /\ call' = c
    /\ UNCHANGED <<pc, nRead, query, parsed, matched, response, lastOut, nProc,
                   nPrinted, raised, now, ticks, seed>>

CallSearch ==
    /\ call.fn = "none"
    /\ \E n \in NameFilters, c \in ColorFilters, s \in SizeFilters, m \in PriceFilters :
        LET q == Criteria(n, c, s, m)
        IN  Called([fn |-> "search_products", arg |-> q, result |-> search_products(q)])

CallEstimateShipping ==
    /\ call.fn = "none"
    /\ \E p \in TableProducts :
        Called([fn |-> "estimate_shipping", arg |-> p, today |-> now,
                result |-> estimate_shipping(p)])

CallCheckDiscount ==
    /\ call.fn = "none"
    /\ \E p \in TestProducts, code \in TestCodes :
        Called([fn |-> "check_discount", arg |-> p, code |-> code,
                result |-> check_discount(p, code)])

CallComparePrices ==
    /\ call.fn \in {"none", "compare_prices"}
    /\ \E p \in TestProducts \cup {OtherStoreProduct} :
        Called([fn |-> "compare_prices", arg |-> p, again |-> call.fn = "compare_prices",
                result |-> compare_prices(p)])

CallGetReturnPolicy ==
    /\ call.fn = "none"
    /\ \E s \in TestStores :
        Called([fn |-> "get_return_policy", arg |-> s, result |-> get_return_policy(s)])

CallProcessQuery ==
    /\ call.fn = "none"
    /\ \E text \in Queries :
        Called([fn |-> "process_query", arg |-> text, today |-> now,
                result |-> process_query(text)])

\* ShoppingAssistant: parse_query, execute_plan, generate_response, as the
\* script of main.py runs them on its query
\* an exception of parse_query ends the script
CallAssistant ==
    /\ call.fn = "none"
    /\ \E text \in Queries :
        LET pq == parse_query(text)
        IN  Called(IF pq.raised = "none"
                   THEN [fn |-> "assistant", arg |-> text, raised |-> "none",
                         parsed |-> pq.val,
                         products |-> PlanProducts(pq.val),
                         results |-> execute_plan(pq.val),
                         result |-> generate_response(execute_plan(pq.val))]
                   ELSE [fn |-> "assistant", arg |-> text, raised |-> pq.raised])

NextCalls ==
    \/ CallSearch
    \/ CallEstimateShipping
    \/ CallCheckDiscount
    \/ CallComparePrices
    \/ CallGetReturnPolicy
    \/ CallProcessQuery
    \/ CallAssistant
    \/ Tick

SpecCalls == Init /\ [][NextCalls]_vars

----------------------------------------------------------------------------
(* What the properties are stated with.                                    *)

\* two strings equal up to the case of their letters
SameIgnoringCase(a, b) ==
    /\ Len(a) = Len(b)
    /\ \A i \in 1..Len(a) :
          \/ a[i] = b[i]
          \/ a[i] \in 65..90 /\ b[i] = a[i] + 32
          \/ b[i] \in 65..90 /\ a[i] = b[i] + 32

StartsWith(s, prefix) == MatchAt(s, 1, prefix)

\* the number of the day d, counted from 0001-01-01
DaysBeforeMonth == <<0, 31, 59, 90, 120, 151, 181, 212, 243, 273, 304, 334>>

DayNumber(d) ==
    365 * (d.y - 1) + ((d.y - 1) \div 4) - ((d.y - 1) \div 100) + ((d.y - 1) \div 400)
    + DaysBeforeMonth[d.m] + (IF d.m > 2 /\ IsLeap(d.y) THEN 1 ELSE 0) + d.d

\* the date n days after d, found by its day number
DateAfter(d, n) ==
    CHOOSE e \in [y : {d.y, d.y + 1}, m : 1..12, d : 1..31] :
        e.d <= DaysInMonth(e.y, e.m) /\ DayNumber(e) = DayNumber(d) + n

TableIndex(p) == CHOOSE i \in 1..Len(MOCK_PRODUCTS) : MOCK_PRODUCTS[i] = p

AllIds == [i \in 1..Len(MOCK_PRODUCTS) |-> MOCK_PRODUCTS[i].id]

----------------------------------------------------------------------------
\* C1: the interactive agent, given the example query (floral skirt under
\* $40 in size S with discount code 'SAVE10'), answers with exactly product
\* "1", a line applying SAVE10 for 10% with the final price $32.39, and a
\* shipping line of $5.99 with a delivery date 5 days after the day of the
\* run.  Stated of the step that computes the response.
C1_EndToEnd ==
    [][(pc = "dispatch" /\ query = QP.Full /\ pc' # "dispatch") =>
          /\ pc' = "print"
          /\ matched' = <<"1">>
          /\ Contains(response', PT.ProductLine)
          /\ Contains(response', PT.Applied)
          /\ Contains(response', PT.Shipping599 \o DateStr(DateAfter(now, 5)))]_vars

\* C1 without the discount line: the part of the claim the agent meets
C1_MatchAndShipping ==
    [][(pc = "dispatch" /\ query = QP.Full /\ pc' # "dispatch") =>
          /\ pc' = "print"
          /\ matched' = <<"1">>
          /\ Contains(response', PT.ProductLine)
          /\ Contains(response', PT.Shipping599 \o DateStr(DateAfter(now, 5)))]_vars

----------------------------------------------------------------------------
\* what C2 asks of a product: every filter the criteria hold is met
Satisfies(q, p) ==
    /\ Has(q, "name") => Contains(Lower(p.name), Lower(q["name"]))
    /\ Has(q, "color") => SameIgnoringCase(q["color"], p.color)
    /\ Has(q, "size") => SameIgnoringCase(q["size"], p.size)
    /\ Has(q, "max_price") => p.price <= q["max_price"]

\* C2: tools.search_products returns exactly the products of the table that
\* meet every filter given (name a substring, colour and size equal, all
\* three without regard to case, price at most max_price), in the order of
\* the table and each once; a filter not given excludes nothing, and no
\* match gives the empty list.
C2_SearchExact ==
    call.fn = "search_products" =>
        LET q == call.arg
            r == call.result
        IN  /\ \A i \in 1..Len(r) : r[i] \in TableProducts /\ Satisfies(q, r[i])
            /\ \A p \in TableProducts : Satisfies(q, p) => \E i \in 1..Len(r) : r[i] = p
            /\ \A i, j \in 1..Len(r) : i < j => TableIndex(r[i]) < TableIndex(r[j])

\* C2 witness: a search by colour written in capitals that finds both blue
\* products
C2_Witness ==
    /\ call.fn = "search_products"
    /\ DOMAIN call.arg = {"color"}
    /\ call.arg["color"] = TI.BLUE
    /\ Len(call.result) = 2

----------------------------------------------------------------------------
\* C3: check_discount, for every price and every code, None included: a
\* code of the table gives valid, the table's percentage (10 for SAVE10)
\* and price * (1 - pct/100); any other gives not valid, 0 percent and the
\* price unchanged.  final_price is in 1/10000 of a dollar.
C3_Discount ==
    call.fn = "check_discount" =>
        LET price == call.arg.price
            code == call.code
            r == call.result
        IN  /\ code = Some(TL.SAVE10) =>
                  r.valid /\ r.discount_percentage = 10 /\ r.final_price = price * 90
            /\ code = Some(TL.SUMMER20) =>
                  r.valid /\ r.discount_percentage = 20 /\ r.final_price = price * 80
            /\ code = Some(TL.WELCOME15) =>
                  r.valid /\ r.discount_percentage = 15 /\ r.final_price = price * 85
            /\ code \notin {Some(TL.SAVE10), Some(TL.SUMMER20), Some(TL.WELCOME15)} =>
                  ~r.valid /\ r.discount_percentage = 0 /\ r.final_price = price * 100

\* C3 witness: SAVE10 on the skirt's price gives 32.391
C3_Witness ==
    /\ call.fn = "check_discount"
    /\ call.code = Some(TL.SAVE10)
    /\ call.arg.price = 3599
    /\ call.result.final_price = 323910

----------------------------------------------------------------------------
\* "under $" occurs in the text and no occurrence has a digit after it
UnderDollarNoDigits(text) ==
    /\ Contains(text, AL.underDollar)
    /\ \A i \in Occurrences(text, AL.underDollar) :
          RunLen(text, i + Len(AL.underDollar), DigitChars) = 0

\* the marker occurs in the text with nothing but spaces after it
MarkerAtEnd(text, marker) ==
    \E i \in Occurrences(text, marker) :
        \A k \in (i + Len(marker))..Len(text) : text[k] \in SpaceChars

\* C4: both parsers return a criteria mapping for every query and never
\* raise; "under $" with no digits after it leaves max_price unset, and
\* "promo code" or "shipping to " with no token after it leaves promo_code
\* and location at their defaults.
C4_ParsersNeverRaise ==
    /\ call.fn = "process_query" =>
          /\ call.result.raised = "none"
          /\ UnderDollarNoDigits(Lower(call.arg)) => ~Has(call.result.parsed, "max_price")
    /\ call.fn = "assistant" =>
          /\ call.raised = "none"
          /\ UnderDollarNoDigits(call.arg) => ~Has(call.parsed, "max_price")
          /\ MarkerAtEnd(call.arg, ML.promoCode) => call.parsed["promo_code"] = None
          /\ MarkerAtEnd(call.arg, ML.shippingTo) => call.parsed["location"] = ML.NewYork

\* C4, for the agent's parser alone
C4_AgentParserNeverRaises ==
    call.fn = "process_query" =>
        /\ call.result.raised = "none"
        /\ UnderDollarNoDigits(Lower(call.arg)) => ~Has(call.result.parsed, "max_price")

----------------------------------------------------------------------------
\* the entries of one call of compare_prices: one per known store other
\* than the product's own, each a whole number of dollars in -15..15 away
\* from the product's price
C5_Entries(c) ==
    LET others == (DOMAIN MOCK_STORES) \ {c.arg.store}
    IN  /\ {c.result[i].store : i \in 1..Len(c.result)} = others
        /\ Len(c.result) = Cardinality(others)
        /\ \A i \in 1..Len(c.result) :
              /\ (c.result[i].price - c.arg.price) % 100 = 0
              /\ (c.result[i].price - c.arg.price) \div 100 \in -15..15

\* two calls agree on offset and stock flag wherever store and product name
\* are the same
C5_Agree(c, d) ==
    c.arg.name = d.arg.name =>
        \A i \in 1..Len(c.result), j \in 1..Len(d.result) :
            c.result[i].store = d.result[j].store =>
                /\ c.result[i].price - c.arg.price = d.result[j].price - d.arg.price
                /\ c.result[i].in_stock = d.result[j].in_stock

\* C5: compare_prices gives one entry per known store other than the
\* product's own and none for its own; each price is the product's plus an
\* offset in [-15, +15]; offset and stock flag depend on store name and
\* product name alone, so a later call in the same run repeats them.
C5_ComparePrices ==
    [][call'.fn = "compare_prices" =>
          /\ C5_Entries(call')
          /\ call.fn = "compare_prices" => C5_Agree(call, call')]_vars

\* C5 witness: a second call of compare_prices, for a product of a known
\* store, whose three entries differ in stock flag and lie on both sides of
\* the product's price
C5_Witness ==
    /\ call.fn = "compare_prices"
    /\ call.again
    /\ call.arg.store = TL.FashionHub
    /\ Len(call.result) = 3
    /\ \E i, j \in 1..3 :
          /\ call.result[i].in_stock /\ ~call.result[j].in_stock
          /\ call.result[i].price < call.arg.price \/ call.result[j].price < call.arg.price
          /\ call.result[i].price > call.arg.price \/ call.result[j].price > call.arg.price

----------------------------------------------------------------------------
\* the shipping cost (cents) and day count C6 gives a product
C6_Cost(p) ==
    IF p.price >= 100 * MOCK_STORES[p.store].free_shipping_threshold
    THEN 0 ELSE MOCK_STORES[p.store].shipping_base

C6_Days(p) == IF C6_Cost(p) = 0 THEN 3 ELSE 5

C6_Line(p, today) ==
    AL.Shipping \o Fmt2(C6_Cost(p)) \o AL.EstimatedDelivery
    \o DateStr(DateAfter(today, C6_Days(p)))

\* C6: for every product of the table, estimate_shipping reports available,
\* cost 0 at or above the store's free-shipping threshold and the store's
\* base cost below it, 3 days exactly when the cost is 0 and 5 otherwise,
\* and the date that many days after today; the shipping line of a response
\* is that of the list price, with or without a discount code in the query.
C6_Shipping ==
    /\ call.fn = "estimate_shipping" =>
          LET p == call.arg
              r == call.result
          IN  /\ r.raised = "none"
              /\ r.available
              /\ r.cost = C6_Cost(p)
              /\ r.estimated_days = C6_Days(p)
              /\ (r.estimated_days = 3) <=> (r.cost = 0)
              /\ r.estimated_delivery_date = DateStr(DateAfter(call.today, r.estimated_days))
    /\ (call.fn = "process_query" /\ call.result.raised = "none") =>
          \A p \in TableProducts :
              (\E i \in 1..Len(call.result.matched) : call.result.matched[i] = p.id)
                  => Contains(call.result.text, C6_Line(p, call.today))

\* C6 witness: free shipping, three days, arriving on a leap day
C6_Witness ==
    /\ call.fn = "estimate_shipping"
    /\ call.result.cost = 0
    /\ call.result.estimated_days = 3
    /\ call.result.estimated_delivery_date = PT.LeapDay

----------------------------------------------------------------------------
AsksReturnPolicy(text) ==
    /\ Contains(Lower(text), AL.return)
    /\ \E s \in DOMAIN MOCK_RETURN_POLICIES : Contains(Lower(text), Lower(s))

----------------------------------------------------------------------------
\* the keywords either parser recognises
Keywords ==
    {AL.underDollar, AL.size, AL.code, ML.shippingTo}
    \cup {AgentColors[i] : i \in 1..Len(AgentColors)}
    \cup {AgentProductTypes[i] : i \in 1..Len(AgentProductTypes)}
    \cup {AsstColors[i] : i \in 1..Len(AsstColors)}
    \cup {AsstProductTypes[i] : i \in 1..Len(AsstProductTypes)}

NoKeyword(text) == \A k \in Keywords : ~Contains(Lower(text), k)

\* C8 as claimed: for a query with no recognised keyword the criteria
\* mapping of either parser is empty, and the search gives the whole table
\* or nothing.
C8_EmptyMapping ==
    (call.fn \in {"process_query", "assistant"} /\ NoKeyword(call.arg)) =>
        /\ call.fn = "process_query" =>
              /\ call.result.parsed = EmptyDict
              /\ call.result.matched \in {<<>>, AllIds}
        /\ call.fn = "assistant" =>
              /\ call.raised = "none"
              /\ call.parsed = EmptyDict
              /\ call.products \in {<<>>, mock_products}

\* C8 as amended: for a query with no recognised keyword the agent's
\* mapping is empty and it runs no search (no products), and the
\* assistant's mapping holds its two defaults and no filter (promo_code
\* None, location "New York") and its search gives the whole table.
C8_NoFilter ==
    (call.fn \in {"process_query", "assistant"} /\ NoKeyword(call.arg)) =>
        /\ call.fn = "process_query" =>
              /\ call.result.parsed = EmptyDict
              /\ call.result.matched = <<>>
        /\ call.fn = "assistant" =>
              /\ call.raised = "none"
              /\ DOMAIN call.parsed = {"promo_code", "location"}
              /\ call.parsed["promo_code"] = None
              /\ call.parsed["location"] = ML.NewYork
              /\ call.products = mock_products

\* C8 witness: the assistant, on a query of words it does not know, finds
\* the whole table
C8_Witness ==
    /\ call.fn = "assistant"
    /\ call.arg = QP.hello
    /\ NoKeyword(call.arg)
    /\ Len(call.products) = 3

----------------------------------------------------------------------------
\* C9: in the loop of agent.main every line that is not "exit" (in any
\* case) is passed to process_query once and its response printed once,
\* before the next line is read; the first line that is "exit" prints the
\* farewell and ends the loop, is not processed, and nothing is read after.
C9_Counts ==
    /\ pc \in {"ask", "input"} => nProc = nRead /\ nPrinted = nRead
    /\ pc = "dispatch" => nProc = nRead - 1 /\ nPrinted = nRead - 1
    /\ pc = "print" =>
          /\ nProc = nRead /\ nPrinted = nRead - 1
          /\ ~SameIgnoringCase(query, AL.exit)
    /\ (pc = "ask" /\ nRead > 0) =>
          /\ ~SameIgnoringCase(query, AL.exit)
          /\ lastOut = <<10>> \o response
    /\ pc = "done" =>
          /\ SameIgnoringCase(query, AL.exit)
          /\ nProc = nRead - 1 /\ nPrinted = nRead - 1
          /\ lastOut = AL.Farewell

C9_Steps ==
    /\ nRead' # nRead => nRead' = nRead + 1 /\ nProc = nRead /\ nPrinted = nRead
    /\ nProc' # nProc =>
          /\ nProc' = nProc + 1
          /\ ~SameIgnoringCase(query, AL.exit)
          /\ pc' = "print" => response' = process_query(query).text
    /\ nPrinted' # nPrinted => nPrinted' = nPrinted + 1 /\ nProc = nPrinted + 1
    /\ (pc = "dispatch" /\ pc' # "dispatch") =>
          (pc' = "done" <=> SameIgnoringCase(query, AL.exit))
    /\ pc = "done" => UNCHANGED <<pc, nRead, nProc, nPrinted, lastOut, query>>

C9_Loop == []C9_Counts /\ [][C9_Steps]_vars

\* C9 witness: the loop ended by "exit" after a line was answered
C9_Witness == pc = "done" /\ nPrinted >= 1 /\ query # AL.exit

----------------------------------------------------------------------------
\* C10: process_query surfaces no exception: every store of a product of
\* MOCK_PRODUCTS is in MOCK_STORES, every store process_query asks a policy
\* of has one; get_return_policy gives SiteA's record (14 days, returns not
\* free) and nothing for a store it does not know.
C10_NoException ==
    /\ \A i \in 1..Len(MOCK_PRODUCTS) : MOCK_PRODUCTS[i].store \in DOMAIN MOCK_STORES
    /\ \A i \in 1..Len(ReturnStores) : ReturnStores[i] \in DOMAIN MOCK_RETURN_POLICIES
    /\ call.fn = "process_query" => call.result.raised = "none"
    /\ (call.fn = "get_return_policy" /\ call.arg = TL.SiteA) =>
          /\ call.result.some
          /\ call.result.val.days_to_return = 14
          /\ ~call.result.val.free_returns
    /\ (call.fn = "get_return_policy" /\ call.arg \in {TI.Unknown, ML.ShopStyle}) =>
          ~call.result.some

\* C10 witness: a response with a product block and the policy of SiteA
C10_Witness ==
    /\ call.fn = "process_query"
    /\ call.result.raised = "none"
    /\ Len(call.result.matched) > 0
    /\ Contains(call.result.text, PT.ReturnPolicyForSiteA)

=============================================================================
